---------------------------- MODULE Spec2Model ----------------------------
(***************************************************************************)
(* A model of the article acquisition and annotation programs:            *)
(*   lab_5_scraper/scraper.py   Config, make_request, Crawler, main       *)
(*   lab_6_pipeline/pipeline.py CorpusManager, TextProcessingPipeline     *)
(* Each component has its own specification (SpecCrawler, SpecMain,       *)
(* SpecConfig, SpecPipeline); the variables of the other components stay  *)
(* idle.                                                                  *)
(***************************************************************************)
EXTENDS Integers, Sequences, FiniteSets, TLC

VARIABLES
    \* ---- Crawler (scraper.py) ----
    seed_urls,      \* Config._seed_urls: the hosts of the configured seed pages
    required,       \* config.get_num_articles()
    urls,           \* Crawler.urls
    seedIdx,        \* number of seeds the for loop of find_articles has taken
    found,          \* the anchors found on the page being scanned
    anchorIdx,      \* number of anchors of `found` already processed
    crawlPc,        \* position inside find_articles
    requests,       \* number of make_request calls made
    sleeps,         \* number of time.sleep(1) calls made
    discovered,     \* history: distinct links of the pages fetched with status 200
    \* ---- Config (scraper.py) ----
    config_dto,     \* Config.config_dto: the fields read from the JSON file
    config,         \* the private fields of the constructed Config, or NoConfig
    cfgPc,          \* "raw", "constructed" or "failed"
    cfgError,       \* the exception Config.__init__ raised, or "none"
    \* ---- CorpusManager and TextProcessingPipeline (pipeline.py) ----
    pathKind,       \* path_to_raw_txt_data: "missing", "file" or "dir"
    dir,            \* the *_raw.txt files of the directory: name prefix -> size
    loadPc,         \* position inside CorpusManager.__init__ and run
    loadError,      \* the exception raised, or "none"
    scanOrder,      \* the order in which glob yields the files to _scan_dataset
    scanIdx,        \* number of files _scan_dataset has registered
    storage,        \* CorpusManager._storage, a dict in insertion order
    preprocessed_texts, \* what analyzer.analyze returned to run
    runIdx,         \* number of items the second loop of run has processed
    cleaned,        \* ids io.to_cleaned was called for
    conllu_files,   \* what analyzer.to_conllu wrote: id -> info
    \* ---- main (scraper.py) ----
    mainPc,         \* position inside main
    idx,            \* the idx of the last turn of the loop of main, 0 before it
    parsed,         \* history: what parser.parse() did at each idx
    raw_files,      \* ids io.to_raw wrote a file for
    meta_files,     \* ids io.to_meta wrote a file for
    mainError       \* the exception that ended main, or "none"

crawlerVars == <<seed_urls, required, urls, seedIdx, found, anchorIdx, crawlPc,
                 requests, sleeps, discovered>>

configVars == <<config_dto, config, cfgPc, cfgError>>

pipelineVars == <<pathKind, dir, loadPc, loadError, scanOrder, scanIdx, storage,
                  preprocessed_texts, runIdx, cleaned, conllu_files>>

mainVars == <<mainPc, idx, parsed, raw_files, meta_files, mainError>>

vars == <<crawlerVars, configVars, pipelineVars, mainVars>>

-----------------------------------------------------------------------------
(* Bounds of the model *)
MaxSeeds == 2
MaxAnchors == 2
MaxQuota == 3
MaxFiles == 3

-----------------------------------------------------------------------------
(* Helpers on sequences *)

Range(s) == {s[i] : i \in 1..Len(s)}

SeqsUpTo(S, n) == UNION {[1..k -> S] : k \in 0..n}

NoDuplicates(s) == \A i, j \in 1..Len(s) : i # j => s[i] # s[j]

-----------------------------------------------------------------------------
(*                     Crawler and make_request                            *)

\* Sample sites and article paths; every path matches /news-\d+-\d+\.html.
Hosts == {"a.test", "b.test"}
Paths == {"/news-1-1.html", "/news-2-2.html"}
Relative == "relative"

\* The href of an anchor that matches url_pattern: site-relative or absolute.
Hrefs == [host : Hosts \cup {Relative}, path : Paths]

\* urllib.parse.urljoin(seed_url, href): a relative href takes the seed's
\* host, an absolute one keeps its own.
urljoin(seed_host, href) ==
    [host |-> IF href.host = Relative THEN seed_host ELSE href.host,
     path |-> href.path]

\* What requests.get can do: answer with some status, raise a
\* RequestException that is no ValueError (ConnectionError, Timeout, ...), or
\* raise a ValueError (InvalidURL, InvalidHeader, a rejected timeout value).
Outcomes ==
    [kind : {"response"}, status : {200, 404}]
        \cup {[kind |-> "request_exception", status |-> 0],
              [kind |-> "value_error", status |-> 0]}

\* make_request: the ValueError is re-raised as a plain ValueError, any other
\* exception propagates as it is; only a response reaches time.sleep(1).
make_request_raises(outcome) ==
    CASE outcome.kind = "response" -> "none"
      [] outcome.kind = "value_error" -> "ValueError"
      [] OTHER -> "RequestException"

make_request_sleeps(outcome) == IF outcome.kind = "response" THEN 1 ELSE 0

\* Mutant of PadWithLast: the loop stops one element early.
PadOneShort(s, n) ==
    IF s # <<>> /\ Len(s) < n - 1
    THEN s \o [i \in 1..(n - 1 - Len(s)) |-> s[Len(s)]]
    ELSE s

\* Mutant of PadWithLast: the padding is left out.
NoPadding(s, n) == s

\* The tail of find_articles: repeat the last URL while the list is short.
RECURSIVE PadWithLast(_, _)
PadWithLast(s, n) ==
    IF s # <<>> /\ Len(s) < n THEN PadWithLast(Append(s, s[Len(s)]), n) ELSE s

\* `if full_url not in self.urls: self.urls.append(full_url)`
AppendIfAbsent(s, u) == IF u \in Range(s) THEN s ELSE Append(s, u)

\* History: the distinct links of one fetched page, added in anchor order.
RECURSIVE Discover(_, _, _)
Discover(seen, seed_host, page) ==
    IF page = <<>> THEN seen
    ELSE LET u == urljoin(seed_host, Head(page))
         IN Discover(IF \E i \in 1..Len(seen) : seen[i] = u THEN seen
                     ELSE seen \o <<u>>,
                     seed_host, Tail(page))

\* The state of a component that a specification leaves out.
NoConfig == [constructed |-> FALSE]

ConfigIdle ==
    /\ config_dto = NoConfig
    /\ config = NoConfig
    /\ cfgPc = "idle"
    /\ cfgError = "none"

CrawlerIdle ==
    /\ seed_urls = <<>>
    /\ required = 0
    /\ urls = <<>>
    /\ seedIdx = 0
    /\ found = <<>>
    /\ anchorIdx = 0
    /\ crawlPc = "idle"
    /\ requests = 0
    /\ sleeps = 0
    /\ discovered = <<>>

PipelineIdle ==
    /\ pathKind = "missing"
    /\ dir = <<>>
    /\ loadPc = "idle"
    /\ loadError = "none"
    /\ scanOrder = <<>>
    /\ scanIdx = 0
    /\ storage = <<>>
    /\ preprocessed_texts = <<>>
    /\ runIdx = 0
    /\ cleaned = {}
    /\ conllu_files = <<>>

MainIdle ==
    /\ mainPc = "idle"
    /\ idx = 0
    /\ parsed = <<>>
    /\ raw_files = {}
    /\ meta_files = {}
    /\ mainError = "none"

InitCrawler ==
    /\ ConfigIdle
    /\ PipelineIdle
    /\ MainIdle
    /\ seed_urls \in SeqsUpTo(Hosts, MaxSeeds)
    /\ required \in 1..MaxQuota
    /\ urls = <<>>
    /\ seedIdx = 0
    /\ found = <<>>
    /\ anchorIdx = 0
    /\ crawlPc = "next_seed"
    /\ requests = 0
    /\ sleeps = 0
    /\ discovered = <<>>

\* One turn of `for seed_url in ...`: make_request and the two `continue`s.
FetchSeed ==
    /\ crawlPc = "next_seed"
    /\ seedIdx < Len(seed_urls)
    /\ seedIdx' = seedIdx + 1
    /\ \E outcome \in Outcomes :
        /\ requests' = requests + 1
        /\ sleeps' = sleeps + make_request_sleeps(outcome)
        /\ IF make_request_raises(outcome) = "ValueError"
           THEN /\ crawlPc' = "raised"
                /\ UNCHANGED <<found, anchorIdx, discovered>>
           ELSE IF make_request_raises(outcome) = "RequestException"
                   \/ outcome.status # 200
           THEN UNCHANGED <<crawlPc, found, anchorIdx, discovered>>
           ELSE \E page \in SeqsUpTo(Hrefs, MaxAnchors) :
                /\ found' = page
                /\ anchorIdx' = 0
                /\ crawlPc' = "anchors"
                /\ discovered' = Discover(discovered, seed_urls[seedIdx + 1], page)
    /\ UNCHANGED <<seed_urls, required, urls>>
    /\ UNCHANGED <<configVars, pipelineVars, mainVars>>

\* Mutant of ProcessAnchor: `break` in place of `return`, so reaching the
\* quota only leaves the current page.
ProcessAnchorBreak ==
    /\ crawlPc = "anchors"
    /\ anchorIdx < Len(found)
    /\ LET full_url == urljoin(seed_urls[seedIdx], found[anchorIdx + 1])
           appended == AppendIfAbsent(urls, full_url)
       IN /\ urls' = appended
          /\ IF Len(appended) >= required
             THEN /\ crawlPc' = "next_seed"
                  /\ found' = <<>>
                  /\ anchorIdx' = 0
             ELSE /\ crawlPc' = "anchors"
                  /\ found' = found
                  /\ anchorIdx' = anchorIdx + 1
    /\ UNCHANGED <<seed_urls, required, seedIdx, requests, sleeps, discovered>>
    /\ UNCHANGED <<configVars, pipelineVars, mainVars>>

\* One turn of `for a_tag in found` (the href matched url_pattern, so it is
\* not empty after strip()).
ProcessAnchor ==
    /\ crawlPc = "anchors"
    /\ anchorIdx < Len(found)
    /\ LET full_url == urljoin(seed_urls[seedIdx], found[anchorIdx + 1])
           appended == AppendIfAbsent(urls, full_url)
       IN /\ urls' = appended
          /\ IF Len(appended) >= required
             THEN /\ crawlPc' = "done"          \* return: the locals are gone
                  /\ found' = <<>>
                  /\ anchorIdx' = 0
             ELSE /\ crawlPc' = "anchors"
                  /\ found' = found
                  /\ anchorIdx' = anchorIdx + 1
    /\ UNCHANGED <<seed_urls, required, seedIdx, requests, sleeps, discovered>>
    /\ UNCHANGED <<configVars, pipelineVars, mainVars>>

\* The inner loop ran out of anchors: back to the loop over the seeds (the
\* page just scanned is not read again).
EndOfPage ==
    /\ crawlPc = "anchors"
    /\ anchorIdx = Len(found)
    /\ crawlPc' = "next_seed"
    /\ found' = <<>>
    /\ anchorIdx' = 0
    /\ UNCHANGED <<seed_urls, required, urls, seedIdx, requests, sleeps, discovered>>
    /\ UNCHANGED <<configVars, pipelineVars, mainVars>>

\* The loop over the seeds ran out: pad and return.
SeedsExhausted ==
    /\ crawlPc = "next_seed"
    /\ seedIdx = Len(seed_urls)
    /\ urls' = PadWithLast(urls, required)
    /\ crawlPc' = "done"
    /\ UNCHANGED <<seed_urls, required, seedIdx, found, anchorIdx,
                   requests, sleeps, discovered>>
    /\ UNCHANGED <<configVars, pipelineVars, mainVars>>

NextCrawler == FetchSeed \/ ProcessAnchor \/ EndOfPage \/ SeedsExhausted

SpecCrawler == InitCrawler /\ [][NextCrawler]_vars

-----------------------------------------------------------------------------
(*                      main: the acquisition run                          *)

\* What the page of an article holds in its div.mndata: no such element, a
\* date in the form %d.%m.%Y, or a text strptime rejects.
Dates == {"absent", "well_formed", "malformed"}

\* The value parse() returns in place of an article.
False == [kind |-> "bool"]

\* HTMLParser.parse, given what make_request did (not a ValueError) and the
\* date of the page: False for a RequestException or a status other than 200,
\* "ValueError" when unify_date_format raises, else the filled article.
parse(full_url, article_id, outcome, date) ==
    IF make_request_raises(outcome) = "RequestException" \/ outcome.status # 200
    THEN False
    ELSE IF date = "malformed"
    THEN [kind |-> "ValueError"]
    ELSE [kind |-> "Article", article_id |-> article_id, url |-> full_url]

\* io.to_raw and io.to_meta: a value that is no article is a fatal error,
\* an article gets the file of its id.
to_raw_raises(article) == article.kind # "Article"
to_raw(files, article) == files \cup {article.article_id}
to_meta(files, article) == files \cup {article.article_id}

\* crawler.urls[:configuration.get_num_articles()]
Slice(s, n) == SubSeq(s, 1, IF Len(s) < n THEN Len(s) ELSE n)

InitMain ==
    /\ ConfigIdle
    /\ PipelineIdle
    /\ seed_urls \in SeqsUpTo(Hosts, MaxSeeds)
    /\ required \in 1..MaxQuota
    /\ urls = <<>>
    /\ seedIdx = 0
    /\ found = <<>>
    /\ anchorIdx = 0
    /\ crawlPc = "next_seed"
    /\ requests = 0
    /\ sleeps = 0
    /\ discovered = <<>>
    /\ mainPc = "find_articles"
    /\ idx = 0
    /\ parsed = <<>>
    /\ raw_files = {}
    /\ meta_files = {}
    /\ mainError = "none"

\* The ValueError of make_request leaves find_articles and ends main.
FindArticlesRaised ==
    /\ mainPc = "find_articles"
    /\ crawlPc = "raised"
    /\ mainPc' = "aborted"
    /\ mainError' = "ValueError"
    /\ UNCHANGED <<idx, parsed, raw_files, meta_files>>
    /\ UNCHANGED <<crawlerVars, configVars, pipelineVars>>

\* find_articles returned: main enters its loop.
FindArticlesReturned ==
    /\ mainPc = "find_articles"
    /\ crawlPc = "done"
    /\ mainPc' = "loop"
    /\ UNCHANGED <<idx, parsed, raw_files, meta_files, mainError>>
    /\ UNCHANGED <<crawlerVars, configVars, pipelineVars>>

\* Mutant of ParseArticle: `if not article: continue` before io.to_raw.
ParseArticleSkip ==
    /\ mainPc = "loop"
    /\ idx < Len(Slice(urls, required))
    /\ idx' = idx + 1
    /\ \E outcome \in Outcomes :
        /\ requests' = requests + 1
        /\ sleeps' = sleeps + make_request_sleeps(outcome)
        /\ IF make_request_raises(outcome) = "ValueError"
           THEN /\ parsed' = Append(parsed, "ValueError")
                /\ mainPc' = "aborted"
                /\ mainError' = "ValueError"
                /\ UNCHANGED <<raw_files, meta_files>>
           ELSE \E date \in Dates :
                LET article == parse(urls[idx + 1], idx + 1, outcome, date)
                IN /\ parsed' = Append(parsed, article.kind)
                   /\ IF article.kind = "ValueError"
                      THEN /\ mainPc' = "aborted"
                           /\ mainError' = "ValueError"
                           /\ UNCHANGED <<raw_files, meta_files>>
                      ELSE IF article = False
                      THEN UNCHANGED <<mainPc, mainError, raw_files, meta_files>>
                      ELSE /\ raw_files' = to_raw(raw_files, article)
                           /\ meta_files' = to_meta(meta_files, article)
                           /\ UNCHANGED <<mainPc, mainError>>
    /\ UNCHANGED <<seed_urls, required, urls, seedIdx, found, anchorIdx,
                   crawlPc, discovered>>
    /\ UNCHANGED <<configVars, pipelineVars>>

\* One turn of `for idx, link in enumerate(..., start=1)`: parse, io.to_raw,
\* io.to_meta.  An exception of parse or of io.to_raw ends main.
ParseArticle ==
    /\ mainPc = "loop"
    /\ idx < Len(Slice(urls, required))
    /\ idx' = idx + 1
    /\ \E outcome \in Outcomes :
        /\ requests' = requests + 1
        /\ sleeps' = sleeps + make_request_sleeps(outcome)
        /\ IF make_request_raises(outcome) = "ValueError"
           THEN /\ parsed' = Append(parsed, "ValueError")
                /\ mainPc' = "aborted"
                /\ mainError' = "ValueError"
                /\ UNCHANGED <<raw_files, meta_files>>
           ELSE \E date \in Dates :
                LET article == parse(urls[idx + 1], idx + 1, outcome, date)
                IN /\ parsed' = Append(parsed, article.kind)
                   /\ IF article.kind = "ValueError"
                      THEN /\ mainPc' = "aborted"
                           /\ mainError' = "ValueError"
                           /\ UNCHANGED <<raw_files, meta_files>>
                      ELSE IF to_raw_raises(article)
                      THEN /\ mainPc' = "aborted"
                           /\ mainError' = "AttributeError"
                           /\ UNCHANGED <<raw_files, meta_files>>
                      ELSE /\ raw_files' = to_raw(raw_files, article)
                           /\ meta_files' = to_meta(meta_files, article)
                           /\ UNCHANGED <<mainPc, mainError>>
    /\ UNCHANGED <<seed_urls, required, urls, seedIdx, found, anchorIdx,
                   crawlPc, discovered>>
    /\ UNCHANGED <<configVars, pipelineVars>>

\* The loop ran out of links: main returns.
MainDone ==
    /\ mainPc = "loop"
    /\ idx = Len(Slice(urls, required))
    /\ mainPc' = "finished"
    /\ UNCHANGED <<idx, parsed, raw_files, meta_files, mainError>>
    /\ UNCHANGED <<crawlerVars, configVars, pipelineVars>>

NextMain ==
    \/ FetchSeed
    \/ ProcessAnchor
    \/ EndOfPage
    \/ SeedsExhausted
    \/ FindArticlesRaised
    \/ FindArticlesReturned
    \/ ParseArticle
    \/ MainDone

SpecMain == InitMain /\ [][NextMain]_vars

-----------------------------------------------------------------------------
(*                               Config                                    *)

\* core_utils.constants: the limits Config validates against.
NUM_ARTICLES_UPPER_LIMIT == 150
TIMEOUT_LOWER_LIMIT == 0
TIMEOUT_UPPER_LIMIT == 60

\* A JSON value as Python sees it: its type and, for a number, its value.
\* isinstance(x, int) holds for an int and for a bool (True == 1, False == 0).
PyVal(type, num) == [type |-> type, num |-> num]
IsInstanceInt(v) == v.type \in {"int", "bool"}
IsInstanceBool(v) == v.type = "bool"
IsInstanceStr(v) == v.type = "str"
IsInstanceDict(v) == v.type = "dict"

\* The elements a seed list is drawn from. A string is kept by what the
\* pattern looks at: its scheme and whether a dotted host follows "://".
SeedItems ==
    {[type |-> "str", scheme |-> "https", dotted |-> TRUE],
     [type |-> "str", scheme |-> "ftp", dotted |-> TRUE],
     [type |-> "str", scheme |-> "http", dotted |-> FALSE],
     [type |-> "int", scheme |-> "", dotted |-> FALSE]}

\* re.match(r'https?://(www\.)?[\w\.-]+\.\w+', url): anchored at the start
\* only, so whatever follows the host is not looked at.
MatchesSeedPattern(url) == url.scheme \in {"http", "https"} /\ url.dotted

RawSeedUrls ==
    [type : {"list"}, items : SeqsUpTo(SeedItems, MaxSeeds)]
        \cup {[type |-> "str", items |-> <<>>], [type |-> "NoneType", items |-> <<>>]}

RawTotals ==
    {PyVal("int", n) : n \in {-1, 0, 1, NUM_ARTICLES_UPPER_LIMIT,
                              NUM_ARTICLES_UPPER_LIMIT + 1}}
        \cup {PyVal("bool", 1), PyVal("float", 2), PyVal("str", 0)}

RawTimeouts ==
    {PyVal("int", n) : n \in {TIMEOUT_LOWER_LIMIT - 1, TIMEOUT_LOWER_LIMIT,
                              TIMEOUT_UPPER_LIMIT, TIMEOUT_UPPER_LIMIT + 1}}
        \cup {PyVal("bool", 0), PyVal("str", 0)}

RawConfigs ==
    [seed_urls : RawSeedUrls,
     total_articles : RawTotals,
     headers : {PyVal("dict", 0), PyVal("list", 0)},
     encoding : {PyVal("str", 0), PyVal("int", 0)},
     timeout : RawTimeouts,
     should_verify_certificate : {PyVal("bool", 1), PyVal("int", 1), PyVal("str", 0)},
     headless_mode : {PyVal("bool", 0), PyVal("NoneType", 0)}]

\* Lines 156-162: seed_urls must be a list, each element a matching string.
SeedUrlsInvalid(seeds) ==
    \/ seeds.type # "list"
    \/ \E i \in 1..Len(seeds.items) :
        \/ ~IsInstanceStr(seeds.items[i])
        \/ ~MatchesSeedPattern(seeds.items[i])

\* Mutant of TotalInvalid: `total < 0`, so that zero is let through.
TotalInvalidZeroAllowed(total) == ~IsInstanceInt(total) \/ total.num < 0

\* Line 165.
TotalInvalid(total) == ~IsInstanceInt(total) \/ total.num <= 0

\* Line 168.
TotalOutOfRange(total) == total.num > NUM_ARTICLES_UPPER_LIMIT

\* Mutant of TimeoutInvalid: the upper limit is not checked.
TimeoutInvalidNoUpper(timeout) ==
    \/ ~IsInstanceInt(timeout)
    \/ timeout.num < TIMEOUT_LOWER_LIMIT

\* Lines 180-181.
TimeoutInvalid(timeout) ==
    \/ ~IsInstanceInt(timeout)
    \/ timeout.num < TIMEOUT_LOWER_LIMIT
    \/ timeout.num > TIMEOUT_UPPER_LIMIT

\* Mutant of validate_config_content: the article count is checked before
\* the seed URLs.
validate_total_first(dto) ==
    CASE TotalInvalid(dto.total_articles) -> "IncorrectNumberOfArticlesError"
      [] OTHER ->
    CASE TotalOutOfRange(dto.total_articles) -> "NumberOfArticlesOutOfRangeError"
      [] OTHER ->
    CASE SeedUrlsInvalid(dto.seed_urls) -> "IncorrectSeedURLError"
      [] OTHER ->
    CASE ~IsInstanceDict(dto.headers) -> "IncorrectHeadersError"
      [] OTHER ->
    CASE ~IsInstanceStr(dto.encoding) -> "IncorrectEncodingError"
      [] OTHER ->
    CASE TimeoutInvalid(dto.timeout) -> "IncorrectTimeoutError"
      [] OTHER ->
    CASE ~IsInstanceBool(dto.should_verify_certificate) -> "IncorrectVerifyError"
      [] OTHER ->
    CASE ~IsInstanceBool(dto.headless_mode) -> "IncorrectVerifyError"
      [] OTHER -> "none"

\* Config._validate_config_content: the first failing check raises.
validate_config_content(dto) ==
    CASE SeedUrlsInvalid(dto.seed_urls) -> "IncorrectSeedURLError"
      [] OTHER ->
    CASE TotalInvalid(dto.total_articles) -> "IncorrectNumberOfArticlesError"
      [] OTHER ->
    CASE TotalOutOfRange(dto.total_articles) -> "NumberOfArticlesOutOfRangeError"
      [] OTHER ->
    CASE ~IsInstanceDict(dto.headers) -> "IncorrectHeadersError"
      [] OTHER ->
    CASE ~IsInstanceStr(dto.encoding) -> "IncorrectEncodingError"
      [] OTHER ->
    CASE TimeoutInvalid(dto.timeout) -> "IncorrectTimeoutError"
      [] OTHER ->
    CASE ~IsInstanceBool(dto.should_verify_certificate) -> "IncorrectVerifyError"
      [] OTHER ->
    CASE ~IsInstanceBool(dto.headless_mode) -> "IncorrectVerifyError"
      [] OTHER -> "none"

InitConfig ==
    /\ MainIdle
    /\ CrawlerIdle
    /\ PipelineIdle
    /\ config_dto \in RawConfigs
    /\ config = NoConfig
    /\ cfgPc = "raw"
    /\ cfgError = "none"

\* Config.__init__ after _extract_config_content: validate, then copy the
\* fields; an exception leaves no Config object.
ConfigInit ==
    /\ cfgPc = "raw"
    /\ LET error == validate_config_content(config_dto)
       IN /\ cfgError' = error
          /\ IF error = "none"
             THEN /\ config' = [constructed |-> TRUE,
                                _seed_urls |-> config_dto.seed_urls,
                                _num_articles |-> config_dto.total_articles,
                                _headers |-> config_dto.headers,
                                _encoding |-> config_dto.encoding,
                                _timeout |-> config_dto.timeout,
                                _should_verify_certificate |->
                                    config_dto.should_verify_certificate,
                                _headless_mode |-> config_dto.headless_mode]
                  /\ cfgPc' = "constructed"
             ELSE /\ config' = config
                  /\ cfgPc' = "failed"
    /\ UNCHANGED config_dto
    /\ UNCHANGED <<crawlerVars, pipelineVars, mainVars>>

NextConfig == ConfigInit

SpecConfig == InitConfig /\ [][NextConfig]_vars

-----------------------------------------------------------------------------
(*               CorpusManager and TextProcessingPipeline                  *)

\* A file "<prefix>_raw.txt" is kept by its prefix, file.stem.split('_')[0],
\* a string of characters. The sample: "0".."4", "01", "10", "a", "1a", "".
DigitChars == {"0", "1", "2", "3", "4"}
Prefixes ==
    {<<c>> : c \in DigitChars}
        \cup {<<"0", "1">>, <<"1", "0">>, <<"a">>, <<"1", "a">>, <<>>}

\* str.isdigit(): not empty and digits only.
isdigit(prefix) == prefix # <<>> /\ \A i \in 1..Len(prefix) : prefix[i] \in DigitChars

DigitValue(c) ==
    CASE c = "0" -> 0 [] c = "1" -> 1 [] c = "2" -> 2 [] c = "3" -> 3 [] c = "4" -> 4

\* int(prefix) of a string of digits: its decimal value.
RECURSIVE int(_)
int(prefix) ==
    IF prefix = <<>> THEN 0
    ELSE 10 * int(SubSeq(prefix, 1, Len(prefix) - 1)) + DigitValue(prefix[Len(prefix)])

\* The prefix io.to_raw gives the file of an article: str(article_id).
raw_prefix(article_id) ==
    CASE article_id = 1 -> <<"1">> [] article_id = 2 -> <<"2">>
      [] article_id = 3 -> <<"3">> [] article_id = 4 -> <<"4">>

\* The text io.from_raw reads from a file: nothing from a zero-length file,
\* otherwise a text of its own.
FileText(prefix) == [origin |-> prefix, empty |-> dir[prefix].size = 0]

\* Article(url=None, article_id) filled by io.from_raw; no annotation yet.
Article(article_id, text) ==
    [article_id |-> article_id, text |-> text, conllu_info |-> <<>>]

\* The orders in which glob('*_raw.txt') can yield a set of files.
GlobOrders(files) ==
    {order \in [1..Cardinality(files) -> files] :
        \A i, j \in 1..Cardinality(files) : i # j => order[i] # order[j]}

\* sorted(ids) of the ids of the numeric prefixes.
RECURSIVE SortedIds(_)
SortedIds(numeric) ==
    IF numeric = {} THEN <<>>
    ELSE LET least == CHOOSE p \in numeric : \A q \in numeric : int(p) <= int(q)
         IN <<int(least)>> \o SortedIds(numeric \ {least})

\* Mutant of RangeList: list(range(n)), the ids counted from 0.
RangeListFromZero(n) == [i \in 1..n |-> i - 1]

\* list(range(1, n + 1))
RangeList(n) == [i \in 1..n |-> i]

\* Line 74: only the prefixes that are numeric give an id.
NumericPrefixes(files) == {p \in files : isdigit(p)}

\* Line 75.
DatasetInvalid(files) ==
    \/ SortedIds(NumericPrefixes(files)) # RangeList(Cardinality(NumericPrefixes(files)))
    \/ \E f \in files : dir[f].size = 0

\* CorpusManager._validate_dataset: the exception it raises, or "none".
validate_dataset ==
    CASE pathKind = "missing" -> "FileNotFoundError"
      [] pathKind = "file" -> "NotADirectoryError"
      [] OTHER ->
    CASE DOMAIN dir = {} -> "EmptyDirectoryError"
      [] OTHER ->
    CASE DatasetInvalid(DOMAIN dir) -> "InconsistentDatasetError"
      [] OTHER -> "none"

\* A dict assignment d[key] = value: a new key goes last, a known key keeps
\* its place.
DictSet(d, key, value) ==
    IF \E i \in 1..Len(d) : d[i].key = key
    THEN [i \in 1..Len(d) |-> IF d[i].key = key THEN [key |-> key, value |-> value]
                              ELSE d[i]]
    ELSE Append(d, [key |-> key, value |-> value])

DictKeys(d) == {d[i].key : i \in 1..Len(d)}

DictGet(d, key) == d[CHOOSE i \in 1..Len(d) : d[i].key = key].value

InitPipeline ==
    /\ MainIdle
    /\ CrawlerIdle
    /\ ConfigIdle
    /\ pathKind \in {"missing", "file", "dir"}
    /\ dir = <<>>
    /\ loadPc = "setup"
    /\ loadError = "none"
    /\ scanOrder = <<>>
    /\ scanIdx = 0
    /\ storage = <<>>
    /\ preprocessed_texts = <<>>
    /\ runIdx = 0
    /\ cleaned = {}
    /\ conllu_files = <<>>

\* The directory is filled before the corpus is loaded: io.to_raw writes
\* "<id>_raw.txt", and any other file may lie beside them.
WriteFile ==
    /\ loadPc = "setup"
    /\ pathKind = "dir"
    /\ Cardinality(DOMAIN dir) < MaxFiles
    /\ \E prefix \in Prefixes \ DOMAIN dir, size \in {0, 1} :
        dir' = dir @@ (prefix :> [size |-> size])
    /\ UNCHANGED <<pathKind, loadPc, loadError, scanOrder, scanIdx, storage,
                   preprocessed_texts, runIdx, cleaned, conllu_files>>
    /\ UNCHANGED <<crawlerVars, configVars, mainVars>>

\* CorpusManager.__init__ up to the glob of _scan_dataset: _storage = {},
\* _validate_dataset(), then the listing that _scan_dataset iterates.
ValidateDataset ==
    /\ loadPc = "setup"
    /\ storage' = <<>>
    /\ LET error == validate_dataset
       IN /\ loadError' = error
          /\ IF error = "none"
             THEN /\ loadPc' = "scanning"
                  /\ scanOrder' \in GlobOrders(DOMAIN dir)
             ELSE /\ loadPc' = "failed"
                  /\ scanOrder' = scanOrder
    /\ scanIdx' = 0
    /\ UNCHANGED <<pathKind, dir, preprocessed_texts, runIdx, cleaned, conllu_files>>
    /\ UNCHANGED <<crawlerVars, configVars, mainVars>>

\* One turn of the loop of _scan_dataset: int() of a prefix that is no
\* number raises ValueError out of the constructor.
ScanFile ==
    /\ loadPc = "scanning"
    /\ scanIdx < Len(scanOrder)
    /\ LET file == scanOrder[scanIdx + 1]
       IN IF isdigit(file)
          THEN /\ storage' = DictSet(storage, int(file),
                                     Article(int(file), FileText(file)))
               /\ scanIdx' = scanIdx + 1
               /\ UNCHANGED <<loadPc, loadError>>
          ELSE /\ loadError' = "ValueError"
               /\ loadPc' = "failed"
               /\ UNCHANGED <<storage, scanIdx>>
    /\ UNCHANGED <<pathKind, dir, scanOrder, preprocessed_texts, runIdx, cleaned,
                   conllu_files>>
    /\ UNCHANGED <<crawlerVars, configVars, mainVars>>

\* The loop of _scan_dataset ends and the constructor returns.
ScanDone ==
    /\ loadPc = "scanning"
    /\ scanIdx = Len(scanOrder)
    /\ loadPc' = "loaded"
    /\ UNCHANGED <<pathKind, dir, loadError, scanOrder, scanIdx, storage,
                   preprocessed_texts, runIdx, cleaned, conllu_files>>
    /\ UNCHANGED <<crawlerVars, configVars, mainVars>>

\* The annotation the analyzer produces for one text.
Analyze(text) == [conllu_of |-> text]

\* article_texts of run: the texts in the order of retrieved_articles.values().
ArticleTexts(d) == [i \in 1..Len(d) |-> d[i].value.text]

\* seq[i] of a Python list: 0-based, a negative index counts from the end.
PyIndexable(seq, i) == -Len(seq) <= i /\ i < Len(seq)
PyIndex(seq, i) == IF i >= 0 THEN seq[i + 1] ELSE seq[Len(seq) + i + 1]

\* Mutant of Aligned: the length of the result list is not looked at.
AlignedUnguarded(article_id, texts) == TRUE

\* Line 127: the analyzer is never None (line 112), so neither is the list.
Aligned(article_id, texts) == (article_id - 1) < Len(texts)

\* run, lines 118-124: collect the texts and call analyzer.analyze, which
\* answers with the annotations of the first m texts, in their positions.
RunAnalyze ==
    /\ loadPc = "loaded"
    /\ \E m \in 0..Len(storage) :
        preprocessed_texts' = [k \in 1..m |-> Analyze(ArticleTexts(storage)[k])]
    /\ runIdx' = 0
    /\ loadPc' = "annotating"
    /\ UNCHANGED <<pathKind, dir, loadError, scanOrder, scanIdx, storage, cleaned,
                   conllu_files>>
    /\ UNCHANGED <<crawlerVars, configVars, mainVars>>

\* One turn of the loop over retrieved_articles.items(), lines 125-130.
RunArticle ==
    /\ loadPc = "annotating"
    /\ runIdx < Len(storage)
    /\ LET article_id == storage[runIdx + 1].key
           article == storage[runIdx + 1].value
       IN /\ cleaned' = cleaned \cup {article_id}
          /\ IF Aligned(article_id, preprocessed_texts)
                /\ ~PyIndexable(preprocessed_texts, article_id - 1)
             THEN /\ loadError' = "IndexError"
                  /\ loadPc' = "failed"
                  /\ UNCHANGED <<storage, conllu_files, runIdx>>
             ELSE LET info == IF Aligned(article_id, preprocessed_texts)
                              THEN <<PyIndex(preprocessed_texts, article_id - 1)>>
                              ELSE article.conllu_info
                  IN /\ storage' = DictSet(storage, article_id,
                                           [article EXCEPT !.conllu_info = info])
                     /\ conllu_files' = DictSet(conllu_files, article_id, info)
                     /\ runIdx' = runIdx + 1
                     /\ UNCHANGED <<loadError, loadPc>>
    /\ UNCHANGED <<pathKind, dir, scanOrder, scanIdx, preprocessed_texts>>
    /\ UNCHANGED <<crawlerVars, configVars, mainVars>>

\* The loop of run ends.
RunDone ==
    /\ loadPc = "annotating"
    /\ runIdx = Len(storage)
    /\ loadPc' = "run_done"
    /\ UNCHANGED <<pathKind, dir, loadError, scanOrder, scanIdx, storage,
                   preprocessed_texts, runIdx, cleaned, conllu_files>>
    /\ UNCHANGED <<crawlerVars, configVars, mainVars>>

NextPipeline ==
    \/ WriteFile
    \/ ValidateDataset
    \/ ScanFile
    \/ ScanDone
    \/ RunAnalyze
    \/ RunArticle
    \/ RunDone

SpecPipeline == InitPipeline /\ [][NextPipeline]_vars

-----------------------------------------------------------------------------
(*                        Crawler: C1, C2, C8                              *)

\* C1: when find_articles returns and the pages fetched with status 200
\* yielded k distinct links, 1 <= k < quota, urls has exactly quota elements,
\* the first k are those links in discovery order, the rest repeat the k-th.
C1_ShortfallPadding ==
    LET k == Len(discovered)
    IN (crawlPc = "done" /\ 1 <= k /\ k < required) =>
        /\ Len(urls) = required
        /\ \A i \in 1..k : urls[i] = discovered[i]
        /\ \A i \in (k + 1)..required : urls[i] = urls[k]

C1_Witness ==
    /\ crawlPc = "done"
    /\ Len(discovered) = 2
    /\ required = 3
    /\ seedIdx = 2
    /\ urls = <<discovered[1], discovered[2], discovered[2]>>

\* C2: when the fetched pages yield at least quota distinct links,
\* find_articles returns the first quota of them, without duplicates; and
\* once urls holds quota elements no seed is fetched, no request is made and
\* urls does not change any more.
C2_EarlyExit ==
    /\ [](crawlPc = "done" /\ Len(discovered) >= required =>
            /\ Len(urls) = required
            /\ NoDuplicates(urls)
            /\ urls = SubSeq(discovered, 1, required))
    /\ [][Len(urls) >= required =>
            /\ seedIdx' = seedIdx
            /\ requests' = requests
            /\ urls' = urls]_vars

C2_Witness ==
    /\ crawlPc = "done"
    /\ required = 2
    /\ Len(urls) = 2
    /\ Len(discovered) >= required
    /\ seedIdx < Len(seed_urls)
    /\ requests = seedIdx

\* C8: every call of make_request was followed by the one-unit delay,
\* whether it ended with a response or with a transport failure.
C8_DelayAfterEveryCall == sleeps = requests

-----------------------------------------------------------------------------
(*                           Config: C9, C10                               *)

\* The shape the pattern asks of a seed URL.
UrlShaped(item) == item.type = "str" /\ item.scheme \in {"http", "https"} /\ item.dotted

IsListOfValidUrls(seeds) ==
    seeds.type = "list" /\ \A i \in 1..Len(seeds.items) : UrlShaped(seeds.items[i])

\* The field constraints other than the ones on seedUrls. "Integer" is
\* Python's: isinstance(x, int), which a boolean satisfies too.
OtherFieldsValid(total, headers, encoding, timeout, verify, headless) ==
    /\ total.type \in {"int", "bool"}
    /\ 0 < total.num
    /\ total.num <= NUM_ARTICLES_UPPER_LIMIT
    /\ headers.type = "dict"
    /\ encoding.type = "str"
    /\ timeout.type \in {"int", "bool"}
    /\ TIMEOUT_LOWER_LIMIT <= timeout.num
    /\ timeout.num <= TIMEOUT_UPPER_LIMIT
    /\ verify.type = "bool"
    /\ headless.type = "bool"

DtoOtherFieldsValid ==
    OtherFieldsValid(config_dto.total_articles, config_dto.headers,
                     config_dto.encoding, config_dto.timeout,
                     config_dto.should_verify_certificate, config_dto.headless_mode)

ConfigOtherFieldsValid ==
    OtherFieldsValid(config._num_articles, config._headers, config._encoding,
                     config._timeout, config._should_verify_certificate,
                     config._headless_mode)

\* C9 as stated: a constructed Configuration has a non-empty list of
\* URL-shaped seeds and valid other fields, and a raw input violating any
\* of this yields an error and no Configuration.
C9_ConfigurationInvariant_Original ==
    /\ cfgPc = "constructed" =>
        /\ IsListOfValidUrls(config._seed_urls)
        /\ Len(config._seed_urls.items) >= 1
        /\ ConfigOtherFieldsValid
    /\ (/\ cfgPc \in {"constructed", "failed"}
        /\ ~(/\ IsListOfValidUrls(config_dto.seed_urls)
             /\ Len(config_dto.seed_urls.items) >= 1
             /\ DtoOtherFieldsValid)) =>
        /\ cfgPc = "failed"
        /\ cfgError # "none"
        /\ config = NoConfig

\* C9 (amended): the same without the demand that the seed list is not empty.
C9_ConfigurationInvariant ==
    /\ cfgPc = "constructed" =>
        /\ IsListOfValidUrls(config._seed_urls)
        /\ ConfigOtherFieldsValid
    /\ (/\ cfgPc \in {"constructed", "failed"}
        /\ ~(IsListOfValidUrls(config_dto.seed_urls) /\ DtoOtherFieldsValid)) =>
        /\ cfgPc = "failed"
        /\ cfgError # "none"
        /\ config = NoConfig

C9_Witness ==
    /\ cfgPc = "constructed"
    /\ config._seed_urls.items = <<>>
    /\ config._num_articles = PyVal("int", NUM_ARTICLES_UPPER_LIMIT)
    /\ config._timeout = PyVal("int", TIMEOUT_UPPER_LIMIT)

\* C10: a raw configuration whose seed_urls is not a list of valid URL
\* strings fails with IncorrectSeedURLError, whatever the other fields are.
C10_SeedUrlErrorFirst ==
    (cfgPc \in {"constructed", "failed"} /\ ~IsListOfValidUrls(config_dto.seed_urls)) =>
        /\ cfgPc = "failed"
        /\ cfgError = "IncorrectSeedURLError"

C10_Witness ==
    /\ cfgPc = "failed"
    /\ cfgError = "IncorrectSeedURLError"
    /\ config_dto.seed_urls.type = "list"
    /\ Len(config_dto.seed_urls.items) = 2
    /\ UrlShaped(config_dto.seed_urls.items[1])
    /\ ~UrlShaped(config_dto.seed_urls.items[2])
    /\ ~DtoOtherFieldsValid
    /\ config_dto.total_articles = PyVal("int", NUM_ARTICLES_UPPER_LIMIT + 1)
    /\ config_dto.headers.type # "dict"

-----------------------------------------------------------------------------
(*              CorpusManager and pipeline: C3, C4, C5, C6, C7             *)

\* The constructor returned and run has called the analyzer.
Analyzed == loadPc \in {"annotating", "run_done"}

\* C3: with as many results as articles, the annotation attached to the
\* article with id i is the analyzer's result for that article's own text.
C3_AnnotationAlignment ==
    (loadPc = "run_done" /\ Len(preprocessed_texts) = Len(storage)) =>
        \A i \in DictKeys(storage) :
            DictGet(storage, i).conllu_info = <<Analyze(DictGet(storage, i).text)>>

\* C4: run never indexes the results out of range, and with M < N results
\* it ends having cleaned all N articles and annotated exactly ids 1..M.
C4_AlignmentTruncation ==
    /\ loadError # "IndexError"
    /\ (loadPc = "run_done" /\ Len(preprocessed_texts) < Len(storage)) =>
        /\ cleaned = DictKeys(storage)
        /\ DictKeys(conllu_files) = DictKeys(storage)
        /\ \A i \in DictKeys(storage) :
            /\ i <= Len(preprocessed_texts) => DictGet(storage, i).conllu_info # <<>>
            /\ i > Len(preprocessed_texts) => DictGet(storage, i).conllu_info = <<>>

C4_Witness ==
    /\ loadPc = "run_done"
    /\ loadError = "none"
    /\ Len(storage) = 3
    /\ Len(preprocessed_texts) = 1
    /\ DictGet(storage, 1).conllu_info # <<>>
    /\ DictGet(storage, 2).conllu_info = <<>>
    /\ DictGet(storage, 3).conllu_info = <<>>

\* The ids of all record files are exactly 1..N, N the number of files.
IdsAreOneToN ==
    /\ \A f \in DOMAIN dir : isdigit(f)
    /\ \A f, g \in DOMAIN dir : f # g => int(f) # int(g)
    /\ {int(f) : f \in {p \in DOMAIN dir : isdigit(p)}} = 1..Cardinality(DOMAIN dir)

\* C5: with record files present, validation passes only if their ids are
\* exactly 1..N and none is zero-length; otherwise loading fails with
\* InconsistentDatasetError.
C5_IdSetCheck ==
    (loadPc # "setup" /\ pathKind = "dir" /\ DOMAIN dir # {}) =>
        IF IdsAreOneToN /\ \A f \in DOMAIN dir : dir[f].size # 0
        THEN loadError # "InconsistentDatasetError"
        ELSE loadPc = "failed" /\ loadError = "InconsistentDatasetError"

\* C6: whenever loading fails, no record was placed in the mapping.
C6_AllOrNothing == loadPc = "failed" => storage = <<>>

\* Records 1..n were persisted, each with a non-empty text, and nothing else.
Persisted(n) ==
    /\ pathKind = "dir"
    /\ DOMAIN dir = {raw_prefix(i) : i \in 1..n}
    /\ \A f \in DOMAIN dir : dir[f].size # 0

\* C7: loading a directory that holds the persisted records 1..N succeeds
\* and gives a mapping with keys exactly 1..N, each key i mapped to the
\* record read from the file of id i.
C7_RoundTrip ==
    \A n \in 1..MaxFiles :
        Persisted(n) =>
            /\ loadPc # "failed"
            /\ loadError = "none"
            /\ loadPc = "loaded" =>
                /\ Len(storage) = n
                /\ DictKeys(storage) = 1..n
                /\ \A i \in 1..n :
                    DictGet(storage, i) = Article(i, FileText(raw_prefix(i)))

C7_Witness ==
    /\ loadPc = "loaded"
    /\ Persisted(3)
    /\ scanOrder[1] = <<"3">>
    /\ DictKeys(storage) = {1, 2, 3}

-----------------------------------------------------------------------------
(*                              Config: C11                                *)

\* C11: with valid seed_urls, a quota that is no integer or is <= 0 fails
\* with IncorrectNumberOfArticlesError, a positive integer above the upper
\* limit fails with NumberOfArticlesOutOfRangeError, and a positive integer
\* up to the limit raises neither. "Integer" is Python's isinstance(x, int).
C11_ArticleQuotaErrorKinds ==
    LET total == config_dto.total_articles
        integer == total.type \in {"int", "bool"}
    IN (cfgPc \in {"constructed", "failed"} /\ IsListOfValidUrls(config_dto.seed_urls)) =>
        /\ (~integer \/ total.num <= 0) =>
            (cfgPc = "failed" /\ cfgError = "IncorrectNumberOfArticlesError")
        /\ (integer /\ total.num > NUM_ARTICLES_UPPER_LIMIT) =>
            (cfgPc = "failed" /\ cfgError = "NumberOfArticlesOutOfRangeError")
        /\ (integer /\ 0 < total.num /\ total.num <= NUM_ARTICLES_UPPER_LIMIT) =>
            cfgError \notin {"IncorrectNumberOfArticlesError",
                             "NumberOfArticlesOutOfRangeError"}

C11_Witness ==
    /\ cfgPc = "failed"
    /\ cfgError = "NumberOfArticlesOutOfRangeError"
    /\ Len(config_dto.seed_urls.items) = 2
    /\ IsListOfValidUrls(config_dto.seed_urls)
    /\ config_dto.total_articles = PyVal("int", NUM_ARTICLES_UPPER_LIMIT + 1)
    /\ config_dto.headers.type # "dict"

-----------------------------------------------------------------------------
(*                          Crawler: C13, C14                              *)

C14_SeedFailurePolicy ==
    [][(seedIdx' = seedIdx + 1 /\ crawlPc' # "anchors") =>
            /\ requests' = requests + 1
            /\ urls' = urls
            /\ crawlPc' = "next_seed"]_vars

-----------------------------------------------------------------------------
(*                             Pipeline: C15                               *)

\* C15: run persists the cleaned text of every loaded record, and asks the
\* analyzer for the annotated form (to_conllu) only of the records that an
\* analyzer result was attached to in this run.
C15_ConlluOnlyWhenAligned ==
    /\ loadPc = "run_done" => cleaned = DictKeys(storage)
    /\ Analyzed =>
        \A i \in DictKeys(conllu_files) :
            /\ i <= Len(preprocessed_texts)
            /\ DictGet(storage, i).conllu_info # <<>>

-----------------------------------------------------------------------------
(*                               main: C12                                 *)

\* C12: when parse yields the failure value for the article with id k, main
\* is aborted with an error, no file of id k is written, and no article with
\* a greater id is fetched or written; the ids with a raw file, and those
\* with a meta file, are always exactly 1..m for some m.
C12_AcquisitionFailFast ==
    /\ \A k \in 1..Len(parsed) :
        parsed[k] = False.kind =>
            /\ mainPc = "aborted"
            /\ mainError # "none"
            /\ k \notin raw_files \cup meta_files
            /\ Len(parsed) = k
            /\ idx = k
            /\ \A j \in raw_files \cup meta_files : j < k
    /\ \E m \in 0..required : raw_files = 1..m /\ meta_files = 1..m

C12_Witness ==
    /\ mainPc = "aborted"
    /\ Len(urls) = 3
    /\ required = 3
    /\ parsed = <<"Article", False.kind>>
    /\ raw_files = {1}
    /\ meta_files = {1}

=============================================================================
